---------------------------- MODULE Spec2Model ----------------------------
(***************************************************************************)
(* A model of pandas-tsdb's InfluxDB layer: the response error classifier  *)
(* and the query path (src/influxdb/indb_io.py), and the dataframe encoder *)
(* and response decoder (src/influxdb/indb_pd.py).                         *)
(*                                                                         *)
(* Python strings are sequences of one-character strings, so that          *)
(* startswith, slicing, lower() and substring search are computed on the   *)
(* characters.  A dict is a function whose DOMAIN is its key set.  Each    *)
(* public function is one action: it reads its arguments, runs the whole   *)
(* function, and leaves the call and its outcome in the state.  The        *)
(* chunked branch of query_indb is the exception: each turn of its loads   *)
(* generator is an action, so that its termination can be stated.          *)
(***************************************************************************)
EXTENDS Integers, Sequences, FiniteSets, TLC

VARIABLES
    call,     \* the last completed call: its function name and arguments
    result,   \* its outcome: the exception raised (if any) and the value returned
    df,       \* the caller-owned table handed to the encoder
    labels    \* the caller-owned labels dict handed to the encoder

vars == <<call, result, df, labels>>

(***************************************************************************)
(* Bounds of the explored inputs.                                          *)
(***************************************************************************)
MaxWords == 3       \* words in an error text
MaxChunks == 3      \* chunks in a response
MaxParts == 3       \* candidate prefixes handed to filter_ns
MaxRows == 2        \* rows of an encoded table
MaxCols == 2        \* columns of an encoded table
MaxValues == 2      \* JSON values in a chunked response body

(***************************************************************************)
(* String literals of the source.                                          *)
(***************************************************************************)
Empty == << >>
S_time == <<"t","i","m","e">>
S_utime == <<"_","t","i","m","e">>
S_value == <<"v","a","l","u","e">>
S_pk == <<"p","k">>
S_upk == <<"_","p","k">>
S_loc == <<"l","o","c">>
S_uloc == <<"_","l","o","c">>
S_user_id == <<"u","s","e","r","_","i","d">>
S_uuser_id == <<"_","u","s","e","r","_","i","d">>
S_session == <<"s","e","s","s","i","o","n">>
S_usession == <<"_","s","e","s","s","i","o","n">>
S_unknown == <<"u","n","k","n","o","w","n">>
S_measurement == <<"m","e","a","s","u","r","e","m","e","n","t">>
S_not_found == <<"n","o","t"," ","f","o","u","n","d">>
S_field == <<"f","i","e","l","d">>
S_tag == <<"t","a","g">>
S_sep == <<":"," ">>
S_dot == <<".">>

(***************************************************************************)
(* Python string primitives.                                               *)
(***************************************************************************)
\* s[n:], which is empty when n >= len(s)
SliceFrom(s, n) == IF n >= Len(s) THEN Empty ELSE SubSeq(s, n + 1, Len(s))

\* s.startswith(p)
StartsWith(s, p) == Len(p) <= Len(s) /\ SubSeq(s, 1, Len(p)) = p

\* s.endswith(p)
EndsWith(s, p) == Len(p) <= Len(s) /\ SubSeq(s, Len(s) - Len(p) + 1, Len(s)) = p

\* sub in s
Contains(s, sub) ==
    \E i \in 1..(Len(s) - Len(sub) + 1) : SubSeq(s, i, i + Len(sub) - 1) = sub

UpperCase == <<"A","B","C","D","E","F","G","H","I","J","K","L","M",
               "N","O","P","Q","R","S","T","U","V","W","X","Y","Z">>
LowerCase == <<"a","b","c","d","e","f","g","h","i","j","k","l","m",
               "n","o","p","q","r","s","t","u","v","w","x","y","z">>

LowerChar(c) ==
    IF \E i \in 1..26 : UpperCase[i] = c
    THEN LowerCase[CHOOSE i \in 1..26 : UpperCase[i] = c]
    ELSE c

\* s.lower()
Lower(s) == [i \in 1..Len(s) |-> LowerChar(s[i])]

Digits == <<"0","1","2","3","4","5","6","7","8","9">>

\* str(n) / '{n}'.format(...) of a non-negative integer
RECURSIVE DecStr(_)
DecStr(n) == IF n < 10 THEN <<Digits[n + 1]>>
             ELSE DecStr(n \div 10) \o <<Digits[(n % 10) + 1]>>

(***************************************************************************)
(* Outcomes of a call.                                                     *)
(***************************************************************************)
NoChunk == -1      \* chunk_idx=None

Raise(kind, msg) == [exc |-> kind, msg |-> msg, val |-> Empty]
Return(v) == [exc |-> "", msg |-> Empty, val |-> v]

(***************************************************************************)
(* indb_io._raise_error                                                    *)
(***************************************************************************)
\* '{code}: {chunk_idx}: {error}'
FormatError(error, chunk_idx, code) ==
    DecStr(code) \o S_sep \o DecStr(chunk_idx) \o S_sep \o error

ErrorMessage(error, chunk_idx, code) ==
    IF chunk_idx # NoChunk THEN FormatError(error, chunk_idx, code) ELSE error

IsMeasurementNotFound(pe) ==
    Contains(pe, S_measurement) /\ Contains(pe, S_not_found)

IsFieldNotFound_NoTag(pe) ==
    Contains(pe, S_unknown) /\ Contains(pe, S_field)

IsFieldNotFound(pe) ==
    Contains(pe, S_unknown) /\ Contains(pe, S_field) /\ Contains(pe, S_tag)

ErrorKind(message) ==
    LET pe == Lower(message) IN
    IF IsMeasurementNotFound(pe) THEN "MeasurementNotFound"
    ELSE IF IsFieldNotFound(pe) THEN "FieldNotFound"
    ELSE "QueryError"

raise_error(error, chunk_idx, code) ==
    LET message == ErrorMessage(error, chunk_idx, code) IN
    Raise(ErrorKind(message), message)

(***************************************************************************)
(* indb_pd.get_parts and indb_pd.filter_ns                                 *)
(***************************************************************************)
\* s.split("."): the pieces between the dots
RECURSIVE SplitDots(_, _)
SplitDots(s, piece) ==
    IF s = << >> THEN <<piece>>
    ELSE IF Head(s) = "." THEN <<piece>> \o SplitDots(Tail(s), Empty)
    ELSE SplitDots(Tail(s), piece \o <<Head(s)>>)

\* ".".join(pieces)
RECURSIVE JoinDots(_)
JoinDots(pieces) ==
    IF pieces = << >> THEN Empty
    ELSE IF Len(pieces) = 1 THEN pieces[1]
    ELSE pieces[1] \o S_dot \o JoinDots(Tail(pieces))

\* the dotted suffixes of namespace ns, longest first
get_parts(ns) ==
    IF ns = Empty THEN << >>
    ELSE LET parts == SplitDots(ns, Empty)
             ns_len == Len(parts)
         IN [k \in 1..(ns_len - 1) |-> JoinDots(SubSeq(parts, k, ns_len))]

RECURSIVE FilterNsFrom(_, _, _, _, _)
FilterNsFrom(parts, i, sensor, prev_match, psensor) ==
    IF i > Len(parts) THEN psensor
    ELSE LET p == parts[i] IN
         IF StartsWith(sensor, p) /\ Len(p) > Len(prev_match)
         THEN FilterNsFrom(parts, i + 1, sensor, p, SliceFrom(psensor, Len(p)))
         ELSE FilterNsFrom(parts, i + 1, sensor, prev_match, psensor)

filter_ns(parts, sensor) == FilterNsFrom(parts, 1, sensor, Empty, sensor)

(***************************************************************************)
(* Cell values.  A value is <<type, text>>: the NaN/None missing marker, an *)
(* integer, or a string.  str() of an integer gives the string with the    *)
(* same text.                                                              *)
(***************************************************************************)
NaN == <<"nan", Empty>>
IntV(n) == <<"int", DecStr(n)>>
StrV(s) == <<"str", s>>
\* str(v) of a cell value, as the characters of the result
StrOf(v) == v[2]

(***************************************************************************)
(* indb_pd.default_inline_labels: in-table label column -> tag key.        *)
(***************************************************************************)
default_inline_labels ==
    (S_upk :> S_pk) @@ (S_uloc :> S_loc) @@
    (S_uuser_id :> S_user_id) @@ (S_usession :> S_session)

\* the order in which the model walks the dict (each entry is handled
\* independently of the others, so the order does not show in any result)
InlineLabelOrder == <<S_upk, S_uloc, S_uuser_id, S_usession>>

(***************************************************************************)
(* indb_pd.is_null                                                         *)
(***************************************************************************)
\* np.all(np.array(val) == 0)
IsZero(val) == val = IntV(0)

is_null(val, zero_null) ==
    \/ val = NaN
    \/ (zero_null /\ IsZero(val))

(***************************************************************************)
(* Tables.  A table is [columns, index, values]: the column names in       *)
(* order, the row index (instants in microseconds: the encoder is given a  *)
(* table indexed by datetime) and the rows, each a sequence of cell values *)
(* aligned with columns.  Column names stay distinct under the encoder's   *)
(* renaming.                                                               *)
(***************************************************************************)
\* the positions 1..n in order; SelectSeq keeps those a drop retains
Positions(n) == [i \in 1..n |-> i]

Pick(seq, idx) == [k \in 1..Len(idx) |-> seq[idx[k]]]

HasColumn(t, c) == \E i \in 1..Len(t.columns) : t.columns[i] = c
ColumnAt(t, c) == CHOOSE i \in 1..Len(t.columns) : t.columns[i] = c
Column(t, c) == [r \in 1..Len(t.values) |-> t.values[r][ColumnAt(t, c)]]

\* df.rename(columns=...), given the new names
RenameColumns(t, names) == [t EXCEPT !.columns = names]

KeepColumns(t, idx) ==
    [t EXCEPT !.columns = Pick(t.columns, idx),
              !.values = [r \in 1..Len(t.values) |-> Pick(t.values[r], idx)]]

KeepRows(t, idx) ==
    [t EXCEPT !.index = Pick(t.index, idx), !.values = Pick(t.values, idx)]

\* df.dropna(axis=1, how='all')
DropNaColumns(t) ==
    KeepColumns(t, SelectSeq(Positions(Len(t.columns)),
        LAMBDA i : \E r \in 1..Len(t.values) : t.values[r][i] # NaN))

\* df.dropna(axis=0, how='all')
DropNaRows(t) ==
    KeepRows(t, SelectSeq(Positions(Len(t.values)),
        LAMBDA r : \E i \in 1..Len(t.columns) : t.values[r][i] # NaN))

\* df.drop(c, axis=1)
DropColumn(t, c) ==
    KeepColumns(t, SelectSeq(Positions(Len(t.columns)),
        LAMBDA i : t.columns[i] # c))

\* len(pd.Series.unique(column))
UniqueCount(column) == Cardinality({column[r] : r \in 1..Len(column)})

(***************************************************************************)
(* indb_pd.df_to_indb                                                      *)
(*                                                                         *)
(* Modelled with ts=None, inlabels=None, retentionPolicy=None,             *)
(* database=None, strtime=False, force_precision=True.  A labels dict maps *)
(* keys to values; << >> is both None and {}.  The outcome carries the     *)
(* caller's labels dict as the call leaves it.                             *)
(***************************************************************************)
NoTime == -1       \* no timestamp: the 'time' column is gone, or the key is absent
S_underscore == <<"_">>

\* special_labels
special_labels == (S_utime :> S_time)

\* _fix_special
fix_special(inlabels, sensor) ==
    IF \E label \in DOMAIN inlabels : inlabels[label] = sensor
    THEN CHOOSE label \in DOMAIN inlabels : inlabels[label] = sensor
    ELSE IF \E label \in DOMAIN special_labels : special_labels[label] = sensor
    THEN CHOOSE label \in DOMAIN special_labels : special_labels[label] = sensor
    ELSE sensor

\* ns as used after lines 153-156
NormalNs(ns) == IF ns # Empty /\ ~EndsWith(ns, S_dot) THEN ns \o S_dot ELSE ns

\* microseconds in np.timedelta64(1, precision)
UnitMicros(precision) ==
    CASE precision = "s" -> 1000000
      [] precision = "ms" -> 1000
      [] precision = "us" -> 1

\* _get_ts over a datetime index: counts of precision units since the epoch
get_ts(index, precision) ==
    [r \in 1..Len(index) |-> index[r] \div UnitMicros(precision)]

\* to_precision.get(precision, precision)
to_precision(precision) ==
    CASE precision = "us" -> "u"
      [] precision = "ns" -> "n"
      [] OTHER -> precision

\* truth value of labels.get(key)
LabelGiven(L, key) ==
    /\ key \in DOMAIN L
    /\ L[key] # StrV(Empty)
    /\ L[key] # IntV(0)

\* labels[key] = val
PutLabel(L, key, val) == (key :> val) @@ L

\* one pass of the loop of lines 203-209 over label
FactorLabel(st, inlabels, label) ==
    IF /\ HasColumn(st.t, label)
       /\ ~LabelGiven(st.L, label)
       /\ UniqueCount(Column(st.t, label)) = 1
    THEN [L |-> PutLabel(st.L, inlabels[label], Column(st.t, label)[1]),
          t |-> DropColumn(st.t, label)]
    ELSE st

RECURSIVE FactorLabels(_, _, _)
FactorLabels(st, inlabels, order) ==
    IF order = << >> THEN st
    ELSE FactorLabels(FactorLabel(st, inlabels, Head(order)), inlabels, Tail(order))

\* {str(k): str(v)}
StrTags(m) == [k \in DOMAIN m |-> StrOf(m[k])]

\* the per-row tags of lines 239-248
RowLabelColumns(t, r, L, subset, inlabels) ==
    {i \in 1..Len(t.columns) :
        /\ ~is_null(t.values[r][i], FALSE)
        /\ StartsWith(t.columns[i], S_underscore)
        /\ ~(\E k \in 1..Len(subset) : subset[k] = t.columns[i])
        /\ t.columns[i] \in DOMAIN inlabels
        /\ (t.columns[i] \notin DOMAIN L \/ L[t.columns[i]] # t.values[r][i])}

RowLabels(t, r, L, subset, inlabels) ==
    LET cols == RowLabelColumns(t, r, L, subset, inlabels) IN
    [key \in {inlabels[t.columns[i]] : i \in cols} |->
        t.values[r][CHOOSE i \in cols : inlabels[t.columns[i]] = key]]

\* whether the loop of lines 251-272 emits a point for cell (r, i)
EmitsPoint(t, r, i, subset) ==
    /\ t.values[r][i] # NaN
    /\ ~is_null(t.values[r][i], TRUE)
    /\ ~(/\ StartsWith(t.columns[i], S_underscore)
         /\ ~(\E k \in 1..Len(subset) : subset[k] = t.columns[i]))

Point(t, time, r, i, ns, L, subset, inlabels, precision) ==
    [name |-> ns \o t.columns[i],
     fields |-> (S_value :> t.values[r][i]),
     precision |-> to_precision(precision),
     timestamp |-> IF time = << >> THEN NoTime ELSE time[r],
     tags |-> StrTags(RowLabels(t, r, L, subset, inlabels))]

\* the points of lines 237-272, row by row and column by column
Points(t, time, ns, L, subset, inlabels, precision) ==
    LET ncols == Len(t.columns)
        row(k) == ((k - 1) \div ncols) + 1
        col(k) == ((k - 1) % ncols) + 1
        cells == SelectSeq(Positions(Len(t.values) * ncols),
                           LAMBDA k : EmitsPoint(t, row(k), col(k), subset))
    IN [n \in 1..Len(cells) |->
          Point(t, time, row(cells[n]), col(cells[n]), ns, L, subset,
                inlabels, precision)]

\* lines 200-277, on the table left by the null pruning
EncodePruned(t, callerLabels, ns, subset, inlabels, precision) ==
    LET time == get_ts(t.index, precision)
        st == FactorLabels([L |-> callerLabels, t |-> t], inlabels,
                           InlineLabelOrder)
        shared == UniqueCount(time) = 1
        points == Points(st.t, IF shared THEN << >> ELSE time, ns, st.L,
                         subset, inlabels, precision)
        data == [points |-> points,
                 precision |-> to_precision(precision),
                 timestamp |-> IF shared THEN time[1] ELSE NoTime,
                 tags |-> StrTags(st.L)]
    IN [out |-> IF points = << >>
                THEN Raise("InfluxDBEmpty", Empty)
                ELSE Return(data),
        \* 'if not labels: labels = {}' rebinds an empty or absent dict only
        labels |-> IF callerLabels = << >> THEN callerLabels ELSE st.L]

\* lines 150-168: the renamings and the null pruning
Renamed(t, ns, inlabels) ==
    LET special == RenameColumns(t,
                       [i \in 1..Len(t.columns) |->
                           fix_special(inlabels, t.columns[i])])
        parts == get_parts(NormalNs(ns))
    IN IF parts # << >>
       THEN RenameColumns(special,
                [i \in 1..Len(t.columns) |-> filter_ns(parts, special.columns[i])])
       ELSE special

df_to_indb(t, callerLabels, ns, subset, zero_null, precision) ==
    IF Len(t.values) = 0
    THEN [out |-> Raise("InfluxDBEmpty", Empty), labels |-> callerLabels]
    ELSE LET pruned == DropNaRows(DropNaColumns(
                          Renamed(t, ns, default_inline_labels)))
         IN IF Len(pruned.values) = 0
            THEN [out |-> Raise("InfluxDBEmpty", Empty), labels |-> callerLabels]
            ELSE EncodePruned(pruned, callerLabels, NormalNs(ns), subset,
                              default_inline_labels, precision)

(***************************************************************************)
(* indb_pd.response_to_df                                                  *)
(*                                                                         *)
(* data is the list of result chunks; a chunk is [error, series] with      *)
(* error = Empty for an absent (or empty) error and series = << >> for an  *)
(* absent one; a series row is [name, tags, columns, values].  A decoded   *)
(* table is a sequence of rows [index, cells]: cells maps the columns the  *)
(* row's frame has to their values (pd.concat leaves the others NaN).      *)
(* Response times are instants in microseconds; np.datetime64 of one gives *)
(* that instant.                                                           *)
(***************************************************************************)
EmptyFrame == << >>

\* _get_col: strip the longest namespace of all_ns that prefixes col
RECURSIVE GetColFrom(_, _, _, _, _)
GetColFrom(all_ns, i, col, prev_match, ncol) ==
    IF i > Len(all_ns) THEN ncol
    ELSE LET ns == all_ns[i] IN
         IF ns # Empty /\ Len(ns) > Len(prev_match) /\ StartsWith(col, ns)
         THEN GetColFrom(all_ns, i + 1, col, ns, SliceFrom(col, Len(ns)))
         ELSE GetColFrom(all_ns, i + 1, col, prev_match, ncol)

get_col(all_ns, col) == GetColFrom(all_ns, 1, col, Empty, col)

\* _name_of: the decoded column name of response column col of series name
name_of(name, all_ns, col) ==
    IF col # S_time /\ name # Empty
    THEN IF col = S_value THEN name
         ELSE name \o S_dot \o get_col(all_ns, col)
    ELSE col

\* the tags of a series row that come back as in-table label columns
LabelCells(lbls, inlabels) ==
    [label \in {l \in DOMAIN inlabels : inlabels[l] \in DOMAIN lbls}
        |-> StrV(lbls[inlabels[label]])]

\* pd.DataFrame(values, columns), the time column made the index, and the
\* label columns added
SeriesFrame(row, all_ns, inlabels) ==
    LET columns == [i \in 1..Len(row.columns) |->
                        name_of(row.name, all_ns, row.columns[i])]
        hasTime == \E i \in 1..Len(columns) : columns[i] = S_time
        timeAt == CHOOSE i \in 1..Len(columns) : columns[i] = S_time
        dataCols == {columns[i] : i \in 1..Len(columns)} \ {S_time}
        colAt(c) == CHOOSE i \in 1..Len(columns) : columns[i] = c
        extra == LabelCells(row.tags, inlabels)
    IN [r \in 1..Len(row.values) |->
          [index |-> IF hasTime THEN row.values[r][timeAt] ELSE r - 1,
           cells |-> extra @@ [c \in dataCols |-> row.values[r][colAt(c)]]]]

\* pk = lbls.get('pk', 'unknown') or 'unknown'
PartitionKey(lbls) ==
    IF S_pk \in DOMAIN lbls /\ lbls[S_pk] # Empty THEN lbls[S_pk] ELSE S_unknown

\* the frames of one chunk, each with its partition key, in order
ChunkFrames(chunk, all_ns, inlabels) ==
    LET usable == SelectSeq(chunk.series,
                     LAMBDA row : row.columns # << >> /\ row.values # << >>)
    IN [i \in 1..Len(usable) |->
          [pk |-> PartitionKey(usable[i].tags),
           frame |-> SeriesFrame(usable[i], all_ns, inlabels)]]

\* a chunk loop that looks at a chunk's series before its error
RECURSIVE ScanChunks_SeriesFirst(_, _, _, _, _)
ScanChunks_SeriesFirst(data, i, all_ns, inlabels, sdfs) ==
    IF i > Len(data) THEN Return(sdfs)
    ELSE IF data[i].series = << >> /\ data[i].error # Empty
    THEN Raise("InfluxDBSyntaxError", DecStr(i - 1) \o S_sep \o data[i].error)
    ELSE ScanChunks_SeriesFirst(data, i + 1, all_ns, inlabels,
                    sdfs \o ChunkFrames(data[i], all_ns, inlabels))

\* the chunk loop: the first chunk with an error raises, the others add
\* their frames to sdfs
RECURSIVE ScanChunks(_, _, _, _, _)
ScanChunks(data, i, all_ns, inlabels, sdfs) ==
    IF i > Len(data) THEN Return(sdfs)
    ELSE IF data[i].error # Empty
    THEN Raise("InfluxDBSyntaxError", DecStr(i - 1) \o S_sep \o data[i].error)
    ELSE ScanChunks(data, i + 1, all_ns, inlabels,
                    sdfs \o ChunkFrames(data[i], all_ns, inlabels))

RECURSIVE ConcatFrames(_)
ConcatFrames(frames) ==
    IF frames = << >> THEN EmptyFrame
    ELSE Head(frames) \o ConcatFrames(Tail(frames))

\* the partition keys of sdfs, each once, in the order first seen
RECURSIVE PartitionOrder(_, _)
PartitionOrder(sdfs, seen) ==
    IF sdfs = << >> THEN << >>
    ELSE IF Head(sdfs).pk \in seen THEN PartitionOrder(Tail(sdfs), seen)
    ELSE <<Head(sdfs).pk>> \o PartitionOrder(Tail(sdfs), seen \cup {Head(sdfs).pk})

\* sort_index(): rows in index order, rows of equal index in their order
RECURSIVE InsertRow(_, _)
InsertRow(sorted, row) ==
    IF sorted = << >> THEN <<row>>
    ELSE IF row.index < Head(sorted).index THEN <<row>> \o sorted
    ELSE <<Head(sorted)>> \o InsertRow(Tail(sorted), row)

RECURSIVE SortIndex(_)
SortIndex(frame) ==
    IF frame = << >> THEN << >>
    ELSE InsertRow(SortIndex(SubSeq(frame, 1, Len(frame) - 1)), frame[Len(frame)])

\* pd.concat within each partition, then across partitions, then sort_index
MergePartitions(sdfs) ==
    LET keys == PartitionOrder(sdfs, {})
        part(k) == ConcatFrames(
                      [i \in 1..Len(SelectSeq(sdfs, LAMBDA e : e.pk = k)) |->
                          SelectSeq(sdfs, LAMBDA e : e.pk = k)[i].frame])
    IN SortIndex(ConcatFrames([j \in 1..Len(keys) |-> part(keys[j])]))

response_to_df(data, ns, inlabels) ==
    IF data = << >> THEN Return(EmptyFrame)
    ELSE LET scanned == ScanChunks(data, 1, <<ns>>, inlabels, << >>) IN
         IF scanned.exc # "" THEN scanned
         ELSE Return(MergePartitions(scanned.val))

(***************************************************************************)
(* indb_io.query_indb, after the request: the response has status_code and *)
(* a JSON body {results: data}.  The chunked branch is not taken here.     *)
(***************************************************************************)
S_None == <<"N","o","n","e">>

\* the loop of _raise_response_error: chunk_idx and error when it ends
RECURSIVE LastOrErrorChunk(_, _)
LastOrErrorChunk(data, i) ==
    IF data[i].error # Empty \/ i = Len(data) THEN i
    ELSE LastOrErrorChunk(data, i + 1)

raise_response_error(data, code) ==
    IF data = << >> THEN Raise("AttributeError", Empty)
    ELSE LET i == LastOrErrorChunk(data, 1)
             error == IF data[i].error # Empty THEN data[i].error ELSE S_None
         IN raise_error(error, i - 1, code)

\* the simple error checks of query_indb
RECURSIVE CheckChunks(_, _)
CheckChunks(data, i) ==
    IF i > Len(data) THEN Return(data)
    ELSE IF data[i].error # Empty THEN raise_error(data[i].error, i - 1, 200)
    ELSE CheckChunks(data, i + 1)

query_indb(status_code, data, flag_raise_error) ==
    IF status_code # 200
    THEN IF flag_raise_error THEN raise_response_error(data, status_code)
         ELSE Return(data)
    ELSE IF ~flag_raise_error THEN Return(data)
    ELSE CheckChunks(data, 1)

(***************************************************************************)
(* Inputs of the error classifier, the decoder and the query path.         *)
(***************************************************************************)
S_Measurement == <<"M","e","a","s","u","r","e","m","e","n","t">>
S_Field == <<"F","i","e","l","d">>
S_foo == <<"f","o","o">>
S_t == <<"t">>
S_a_dot == <<"a",".">>
S_a_t == <<"a",".","t">>
S_X == <<"X">>
S_Y == <<"Y">>

Vocabulary ==
    {S_measurement, S_Measurement, S_not_found, S_unknown,
     S_field, S_Field, S_tag, S_foo}

\* ' '.join(words)
RECURSIVE JoinWords(_)
JoinWords(words) ==
    IF words = << >> THEN Empty
    ELSE IF Len(words) = 1 THEN words[1]
    ELSE words[1] \o <<" ">> \o JoinWords(Tail(words))

ErrorTexts ==
    {JoinWords(ws) : ws \in UNION {[1..n -> Vocabulary] : n \in 0..MaxWords}}

E_measurement_not_found == S_measurement \o <<" ">> \o S_not_found \o S_sep \o S_foo
E_unknown_field == JoinWords(<<S_unknown, S_field, S_foo>>)
E_syntax == JoinWords(<<S_foo, S_foo>>)

SeriesX == [name |-> S_a_t, tags |-> (S_pk :> S_X),
            columns |-> <<S_time, S_value>>, values |-> <<<<0, IntV(5)>>>>]
SeriesPlain == [name |-> S_t, tags |-> << >>,
                columns |-> <<S_time, S_value>>, values |-> <<<<1, IntV(7)>>>>]

ChunkChoices ==
    {[error |-> Empty, series |-> << >>],
     [error |-> Empty, series |-> <<SeriesX>>],
     [error |-> Empty, series |-> <<SeriesPlain>>],
     [error |-> E_measurement_not_found, series |-> << >>],
     [error |-> E_unknown_field, series |-> << >>],
     [error |-> E_syntax, series |-> <<SeriesX>>]}

Responses == UNION {[1..n -> ChunkChoices] : n \in 0..MaxChunks}

EmptyTable == [columns |-> << >>, index |-> << >>, values |-> << >>]

(***************************************************************************)
(* The calls of the error classifier, the decoder and the query path.      *)
(***************************************************************************)
\* The functions keep no state between calls: a call starts from the idle
\* caller, and the caller takes the outcome before it calls again.
Idle == call.fn = "none"

Init ==
    /\ call = [fn |-> "none"]
    /\ result = Return(Empty)
    /\ df = EmptyTable
    /\ labels = << >>

TakeOutcome ==
    /\ ~Idle
    /\ call' = [fn |-> "none"]
    /\ result' = Return(Empty)
    /\ UNCHANGED <<df, labels>>

RaiseError ==
    /\ Idle
    /\ \E error \in ErrorTexts, chunk_idx \in {NoChunk} \cup 0..(MaxChunks - 1),
       code \in {200, 404} :
        /\ call' = [fn |-> "_raise_error", error |-> error,
                    chunk_idx |-> chunk_idx, code |-> code]
        /\ result' = raise_error(error, chunk_idx, code)
        /\ UNCHANGED <<df, labels>>

ResponseToDf ==
    /\ Idle
    /\ \E data \in Responses, ns \in {Empty, S_a_dot} :
        /\ call' = [fn |-> "response_to_df", data |-> data, ns |-> ns]
        /\ result' = response_to_df(data, ns, default_inline_labels)
        /\ UNCHANGED <<df, labels>>

QueryIndb ==
    /\ Idle
    /\ \E data \in Responses, status_code \in {200, 500}, flag \in BOOLEAN :
        /\ call' = [fn |-> "query_indb", data |-> data,
                    status_code |-> status_code, raise_error |-> flag]
        /\ result' = query_indb(status_code, data, flag)
        /\ UNCHANGED <<df, labels>>

NextErrors == RaiseError \/ ResponseToDf \/ QueryIndb \/ TakeOutcome

SpecErrors == Init /\ [][NextErrors]_vars

(***************************************************************************)
(* Claims about the error classifier, the decoder's and the query path's   *)
(* errors.                                                                 *)
(***************************************************************************)
\* whether the error text handed to the classifier contains word, ignoring case
TextHas(word) == Contains(Lower(call.error), word)

\* C1 as amended: the classifier is a case-insensitive three-way rule on the
\* error text: MeasurementNotFound when it contains "measurement" and
\* "not found"; otherwise FieldNotFound when it contains "unknown" and both
\* "field" and "tag"; otherwise QueryError.
C1_ClassifierRule ==
    call.fn = "_raise_error" =>
        result.exc =
            IF TextHas(S_measurement) /\ TextHas(S_not_found)
            THEN "MeasurementNotFound"
            ELSE IF TextHas(S_unknown) /\ TextHas(S_field) /\ TextHas(S_tag)
            THEN "FieldNotFound"
            ELSE "QueryError"

\* C1 witness: a mixed-case text with "unknown", "field" and "tag" was
\* classified FieldNotFound.
C1_Witness ==
    /\ call.fn = "_raise_error"
    /\ result.exc = "FieldNotFound"
    /\ call.error # Lower(call.error)

\* C1 as stated: ... otherwise FieldNotFound when the text contains "unknown"
\* and at least one of "field" or "tag" ...
C1_AsStated ==
    call.fn = "_raise_error" =>
        result.exc =
            IF TextHas(S_measurement) /\ TextHas(S_not_found)
            THEN "MeasurementNotFound"
            ELSE IF TextHas(S_unknown) /\ (TextHas(S_field) \/ TextHas(S_tag))
            THEN "FieldNotFound"
            ELSE "QueryError"

\* the chunks of the decoded or queried response that carry an error
ErrorChunks == {i \in 1..Len(call.data) : call.data[i].error # Empty}
FirstErrorChunk == CHOOSE i \in ErrorChunks : \A j \in ErrorChunks : i <= j

\* the message ends with '<chunk index>: <error text>'
CarriesChunk(msg, i) ==
    EndsWith(msg, DecStr(i - 1) \o S_sep \o call.data[i].error)

\* C2 as stated: when a chunk of the decoded response carries an error
\* string, response_to_df raises the kind the classifier assigns to that
\* string (MeasurementNotFound, FieldNotFound or QueryError) and the error
\* carries the chunk index.
C2_DecoderClassifies ==
    (call.fn = "response_to_df" /\ ErrorChunks # {}) =>
        /\ result.exc =
              raise_error(call.data[FirstErrorChunk].error, NoChunk, 200).exc
        /\ CarriesChunk(result.msg, FirstErrorChunk)

\* C3: when some chunk of the response carries an error, response_to_df and
\* query_indb (status 200, raise_error=True) raise an error that carries the
\* smallest index of an erroring chunk, and return nothing.
C3_FirstErrorNoPartial ==
    ((\/ call.fn = "response_to_df"
      \/ (call.fn = "query_indb" /\ call.status_code = 200 /\ call.raise_error))
     /\ ErrorChunks # {}) =>
        /\ result.exc # ""
        /\ result.val = Empty
        /\ CarriesChunk(result.msg, FirstErrorChunk)

\* C3 witness: the decoder raised on a response whose first erroring chunk
\* comes after a chunk with a valid series and before another one.
C3_Witness ==
    /\ call.fn = "response_to_df"
    /\ ErrorChunks # {}
    /\ result.exc # ""
    /\ \E i, j \in 1..Len(call.data) :
          /\ i < FirstErrorChunk /\ FirstErrorChunk < j
          /\ call.data[i].series # << >> /\ call.data[i].error = Empty
          /\ call.data[j].series # << >> /\ call.data[j].error = Empty

(***************************************************************************)
(* The calls of the namespace helpers.                                     *)
(***************************************************************************)
S_b_dot == <<"b",".">>
S_c_dot == <<"c",".">>
S_a_b_dot == <<"a",".","b",".">>
S_b_c_dot == <<"b",".","c",".">>
S_a_b_c_dot == <<"a",".","b",".","c",".">>
S_a_b == <<"a",".","b">>

Prefixes == {S_a_dot, S_b_dot, S_c_dot, S_a_b_dot, S_b_c_dot, S_a_b_c_dot}
Sensors == {p \o S_t : p \in Prefixes \cup {Empty}}
PartLists == UNION {[1..n -> Prefixes] : n \in 0..MaxParts}
Namespaces == Prefixes \cup {Empty, S_a_b}

GetParts ==
    /\ Idle
    /\ \E ns \in Namespaces :
        /\ call' = [fn |-> "get_parts", ns |-> ns]
        /\ result' = Return(get_parts(ns))
        /\ UNCHANGED <<df, labels>>

FilterNs ==
    /\ Idle
    /\ \E parts \in PartLists, sensor \in Sensors :
        /\ call' = [fn |-> "filter_ns", parts |-> parts, sensor |-> sensor]
        /\ result' = Return(filter_ns(parts, sensor))
        /\ UNCHANGED <<df, labels>>

\* the stripping the encoder does: filter_ns over the parts of its namespace
FilterNsOfParts ==
    /\ Idle
    /\ \E ns \in Namespaces, sensor \in Sensors :
        /\ call' = [fn |-> "_fix_ns", ns |-> ns, sensor |-> sensor]
        /\ result' = Return(filter_ns(get_parts(ns), sensor))
        /\ UNCHANGED <<df, labels>>

NextNamespace == GetParts \/ FilterNs \/ FilterNsOfParts \/ TakeOutcome

SpecNamespace == Init /\ [][NextNamespace]_vars

\* the candidates of the call that are prefixes of its column name
Matching == {i \in 1..Len(call.parts) : StartsWith(call.sensor, call.parts[i])}
Longest == CHOOSE i \in Matching :
              \A j \in Matching : Len(call.parts[j]) <= Len(call.parts[i])

\* C4 as stated: for every list of candidate prefixes, in any order, and
\* every column name, filter_ns returns the column name with the longest
\* candidate that is a prefix of it removed once from its front, and the
\* column name unchanged when no candidate is a prefix of it.
C4_LongestPrefixAnyOrder ==
    call.fn = "filter_ns" =>
        result.val = IF Matching = {} THEN call.sensor
                     ELSE SliceFrom(call.sensor, Len(call.parts[Longest]))

(***************************************************************************)
(* The calls of the encoder.  The caller owns a table and a labels dict    *)
(* and hands both to every df_to_indb call it makes.                       *)
(***************************************************************************)
S_ud == <<"_","d">>

\* the columns a table may have, in table order
ColumnOrder == <<S_upk, S_pk, S_t, S_a_t, S_ud>>
LabelColumns == {S_upk, S_pk}

\* column sets whose names stay distinct under the encoder's renamings
ColumnSets ==
    {cs \in SUBSET {ColumnOrder[i] : i \in 1..Len(ColumnOrder)} :
        /\ cs # {}
        /\ Cardinality(cs) <= MaxCols
        /\ ~({S_upk, S_pk} \subseteq cs)
        /\ ~({S_t, S_a_t} \subseteq cs)}

CellValues(c) ==
    IF c \in LabelColumns THEN {NaN, StrV(S_X), StrV(S_Y)}
    ELSE {NaN, IntV(0), IntV(5)}

\* row index instants, in microseconds
Instants == {0, 500}

TablesOf(columns, n) ==
    {[columns |-> columns, index |-> index, values |-> values] :
        index \in [1..n -> Instants],
        values \in [1..n -> {row \in [1..Len(columns) -> {NaN, IntV(0), IntV(5), StrV(S_X), StrV(S_Y)}] :
                                \A i \in 1..Len(columns) : row[i] \in CellValues(columns[i])}]}

\* the tables of at most maxRows rows over the column sets
Tables(columnSets, maxRows) ==
    {EmptyTable} \cup
    UNION {TablesOf(SelectSeq(ColumnOrder, LAMBDA c : c \in cs), n) :
              cs \in columnSets, n \in 1..maxRows}

LabelDicts == {<< >>, (S_pk :> StrV(S_X)), (S_upk :> StrV(S_X))}

InitEncode ==
    /\ call = [fn |-> "none"]
    /\ result = Return(Empty)
    /\ df \in Tables(ColumnSets, MaxRows)
    /\ labels \in LabelDicts

DfToIndb ==
    /\ Idle
    /\ \E ns \in {Empty, S_a_dot}, subset \in {<< >>, <<S_ud>>},
          zero_null \in BOOLEAN, precision \in {"ms", "us"} :
        LET done == df_to_indb(df, labels, ns, subset, zero_null, precision) IN
        /\ call' = [fn |-> "df_to_indb", df |-> df, labels |-> labels,
                    ns |-> ns, subset |-> subset, zero_null |-> zero_null,
                    precision |-> precision]
        /\ result' = done.out
        /\ labels' = done.labels
        /\ df' = df

\* The query-response shape of a written batch (spec section 6): one
\* series per point, named after the point, with the batch-level tags and
\* the point's own, and one [time, value] row whose time is the instant the
\* point's (or else the batch's) timestamp counts at the call's precision.
BatchResponse(batch, precision) ==
    <<[error |-> Empty,
       series |-> [n \in 1..Len(batch.points) |->
          [name |-> batch.points[n].name,
           tags |-> batch.points[n].tags @@ batch.tags,
           columns |-> <<S_time, S_value>>,
           values |-> <<<<(IF batch.points[n].timestamp # NoTime
                           THEN batch.points[n].timestamp
                           ELSE batch.timestamp) * UnitMicros(precision),
                          batch.points[n].fields[S_value]>>>>]]]>>

\* the caller decodes the response for the batch it was returned, with
\* the namespace it encoded with
DecodeBatch ==
    /\ call.fn = "df_to_indb"
    /\ result.exc = ""
    /\ LET data == BatchResponse(result.val, call.precision) IN
        /\ call' = [fn |-> "df_to_indb, response_to_df", data |-> data,
                    df |-> call.df, ns |-> call.ns, subset |-> call.subset,
                    zero_null |-> call.zero_null, precision |-> call.precision]
        /\ result' = response_to_df(data, call.ns, default_inline_labels)
    /\ UNCHANGED <<df, labels>>

NextEncode == DfToIndb \/ DecodeBatch \/ TakeOutcome

SpecEncode == InitEncode /\ [][NextEncode]_vars

(***************************************************************************)
(* Claims about the encoder.                                               *)
(***************************************************************************)
Encoded == call.fn = "df_to_indb"
Batch == result.val

\* the name the encoder gives column i of the encoded table, and whether
\* it is a field column (not an underscore column, or listed in subset)
EncodedName(i) == Renamed(call.df, call.ns, default_inline_labels).columns[i]
FieldColumn(i) ==
    \/ ~StartsWith(EncodedName(i), S_underscore)
    \/ \E k \in 1..Len(call.subset) : call.subset[k] = EncodedName(i)
Cells == {<<r, i>> \in (1..Len(call.df.values)) \X (1..Len(call.df.columns)) : TRUE}
CellValue(cell) == call.df.values[cell[1]][cell[2]]

\* the batch has a point for the cell
HasPointFor(cell) ==
    /\ result.exc = ""
    /\ \E n \in 1..Len(Batch.points) :
          /\ Batch.points[n].name = NormalNs(call.ns) \o EncodedName(cell[2])
          /\ Batch.points[n].fields = (S_value :> CellValue(cell))

\* C5 as stated: a zero-valued field cell is skipped only when zero_null is
\* enabled; with zero_null=False every non-null zero-valued field cell
\* produces a point.
C5_ZeroKeptWhenPolicyOff ==
    (Encoded /\ ~call.zero_null) =>
        \A cell \in Cells :
            (FieldColumn(cell[2]) /\ CellValue(cell) = IntV(0)) => HasPointFor(cell)

\* C6 as stated: after an encode call, whether it returned a batch or
\* raised, the caller's table and the caller's labels dict hold what they
\* held before the call.
C6_CallerInputUnchanged ==
    Encoded => (df = call.df /\ labels = call.labels)

\* C7 as stated: when the caller's labels give a value for a tag key and the
\* table has an inline-label column for that key (under its '_' name or its
\* alias) with exactly one distinct value, the batch-level tag for the key
\* is the caller's value.
C7_CallerLabelWins ==
    (Encoded /\ result.exc = "") =>
        \A label \in DOMAIN default_inline_labels :
            LET key == default_inline_labels[label] IN
            (/\ key \in DOMAIN call.labels
             /\ \E c \in {label, key} :
                   /\ HasColumn(call.df, c)
                   /\ UniqueCount(Column(call.df, c)) = 1) =>
                (key \in DOMAIN Batch.tags /\ Batch.tags[key] = StrOf(call.labels[key]))

\* C8 as stated: in a returned batch, if the batch carries a shared
\* timestamp no point carries its own, and no point carries a tag key that
\* the batch-level tags also have.
C8_NoDuplication ==
    (Encoded /\ result.exc = "") =>
        \A n \in 1..Len(Batch.points) :
            /\ Batch.timestamp # NoTime => Batch.points[n].timestamp = NoTime
            /\ DOMAIN Batch.points[n].tags \cap DOMAIN Batch.tags = {}

\* a field cell that survives the pruning of missing values under the
\* caller's policy: not null, and not zero when zero counts as missing
Survives(cell, zero_as_missing) ==
    /\ FieldColumn(cell[2])
    /\ CellValue(cell) # NaN
    /\ zero_as_missing => CellValue(cell) # IntV(0)

NeverDegenerate ==
    \/ result.exc = "InfluxDBEmpty"
    \/ /\ result.exc = ""
       /\ Batch.points # << >>
       /\ \A n \in 1..Len(Batch.points) : DOMAIN Batch.points[n].fields # {}

\* C9 as stated: df_to_indb raises the empty-input error or returns a batch
\* with at least one point, each with a non-empty fields map; it raises
\* exactly when the table is empty, becomes empty after the all-null rows
\* and columns are dropped, or no field cell survives the null/zero pruning
\* of the caller's policy.
C9_EmptyExactlyWhenNothingSurvives ==
    Encoded =>
        /\ NeverDegenerate
        /\ result.exc = "InfluxDBEmpty" <=>
              ~(\E cell \in Cells : Survives(cell, call.zero_null))

\* The same with zero always counted as missing, which is what line 254
\* does whatever the caller's zero_null: this holds of every call.
EmptyExactlyWhenNoNonZeroField ==
    Encoded =>
        /\ NeverDegenerate
        /\ result.exc = "InfluxDBEmpty" <=>
              ~(\E cell \in Cells : Survives(cell, TRUE))

\* the instant of row r of the encoded table, cut to the call's precision
TruncatedInstant(r) ==
    (call.df.index[r] \div UnitMicros(call.precision)) * UnitMicros(call.precision)

\* C10 as stated: encoding a table and decoding the response shape of the
\* resulting batch with the same namespace and inline labels gives a table
\* that has, for every non-null cell of a field or inline-label column of
\* the original (zero counting as null under zero_null), a row at the
\* cell's row instant (cut to the precision) holding the cell's value (a
\* label's as a string) under the original column name.
C10_RoundTrip ==
    (call.fn = "df_to_indb, response_to_df") =>
        /\ result.exc = ""
        /\ \A cell \in Cells :
              LET name == call.df.columns[cell[2]]
                  isLabel == EncodedName(cell[2]) \in DOMAIN default_inline_labels
                  expected == IF isLabel THEN StrV(StrOf(CellValue(cell)))
                              ELSE CellValue(cell)
              IN (/\ isLabel \/ FieldColumn(cell[2])
                  /\ CellValue(cell) # NaN
                  /\ call.zero_null => CellValue(cell) # IntV(0)) =>
                     \E k \in 1..Len(result.val) :
                        /\ result.val[k].index = TruncatedInstant(cell[1])
                        /\ name \in DOMAIN result.val[k].cells
                        /\ result.val[k].cells[name] = expected

(***************************************************************************)
(* indb_io.query_indb, chunked=True: the body is split by the loads        *)
(* generator, which strips the text, reads one JSON value with             *)
(* json.JSONDecoder().raw_decode and continues with the rest.              *)
(*                                                                         *)
(* A parsed value is <<"num", n>>, <<"str", chars>>, <<"arr", values>>,    *)
(* <<"obj", dict>>, <<"true">>, <<"false">> or <<"null">>.  The decoder    *)
(* is computed on the characters; of its grammar the model reads decimal   *)
(* integers without sign, fraction or exponent, and strings without        *)
(* backslash escapes.                                                      *)
(***************************************************************************)
JNum(n) == <<"num", n>>
JStr(chars) == <<"str", chars>>
JArr(values) == <<"arr", values>>
JObj(dict) == <<"obj", dict>>
JTrue == <<"true">>
JFalse == <<"false">>
JNull == <<"null">>

\* json.decoder.WHITESPACE_STR
JsonWhitespace == {" ", "\t", "\n", "\r"}

\* the characters str.strip() removes, of those in the alphabet
StripChars == {" ", "\t", "\n", "\r", "\f"}

\* characters a strict JSON string may not hold unescaped
ControlChars == {"\t", "\n", "\r", "\f"}

\* s.lstrip()
RECURSIVE lstrip(_)
lstrip(s) ==
    IF s # << >> /\ Head(s) \in StripChars THEN lstrip(Tail(s)) ELSE s

\* s.rstrip()
RECURSIVE rstrip(_)
rstrip(s) ==
    IF s # << >> /\ s[Len(s)] \in StripChars
    THEN rstrip(SubSeq(s, 1, Len(s) - 1)) ELSE s

\* s.strip()
strip(s) == rstrip(lstrip(s))

\* a decoder outcome: the value and the index just past it, or an error
Decoded(val, end) == [ok |-> TRUE, val |-> val, end |-> end]
DecodeError == [ok |-> FALSE, val |-> << >>, end |-> 0]

\* s[idx:idx + 1], '' past the end of s
CharAt(s, idx) == IF idx < Len(s) THEN s[idx + 1] ELSE ""

\* WHITESPACE.match(s, end).end()
RECURSIVE SkipWhitespace(_, _)
SkipWhitespace(s, end) ==
    IF CharAt(s, end) \in JsonWhitespace THEN SkipWhitespace(s, end + 1) ELSE end

\* int(c) of a digit character
DigitValue(c) == (CHOOSE i \in 1..10 : Digits[i] = c) - 1

IsDigit(c) == \E i \in 1..10 : Digits[i] = c

\* the digits of the NUMBER_RE match continued from index end
RECURSIVE MoreDigits(_, _, _)
MoreDigits(s, end, n) ==
    IF IsDigit(CharAt(s, end))
    THEN MoreDigits(s, end + 1, n * 10 + DigitValue(CharAt(s, end)))
    ELSE Decoded(JNum(n), end)

\* NUMBER_RE = (-?(?:0|[1-9]\d*))...: a leading 0 ends the integer
match_number(s, idx) ==
    IF CharAt(s, idx) = "0" THEN Decoded(JNum(0), idx + 1)
    ELSE MoreDigits(s, idx + 1, DigitValue(CharAt(s, idx)))

\* scanstring(s, end): the characters up to the closing quote
RECURSIVE scanstring(_, _, _)
scanstring(s, end, chars) ==
    LET c == CharAt(s, end) IN
    IF c = "" \/ c \in ControlChars THEN DecodeError
    ELSE IF c = "\"" THEN Decoded(chars, end + 1)
    ELSE scanstring(s, end + 1, Append(chars, c))

\* pairs[key] = value of a dict being built: a repeated key keeps the last
PutPair(dict, key, value) ==
    [k \in DOMAIN dict \cup {key} |-> IF k = key THEN value ELSE dict[k]]

S_null == <<"n","u","l","l">>
S_true == <<"t","r","u","e">>
S_false == <<"f","a","l","s","e">>

\* s[idx:idx + n]
Slice(s, idx, n) ==
    IF idx >= Len(s) THEN Empty
    ELSE SubSeq(s, idx + 1, IF idx + n > Len(s) THEN Len(s) ELSE idx + n)

\* the element of a one-element set.  An intermediate result of the decoder
\* is bound as x \in {e}, which evaluates e once however often x is used.
Only(S) == CHOOSE x \in S : TRUE

RECURSIVE scan_once(_, _), JSONArrayValues(_, _, _), JSONObjectPairs(_, _, _)

\* JSONArray after the opening bracket
JSONArray(s, start) ==
    Only({ IF CharAt(s, end) = "]" THEN Decoded(JArr(<< >>), end + 1)
           ELSE JSONArrayValues(s, end, << >>)
         : end \in {SkipWhitespace(s, start)} })

\* JSONArray's loop: a value, then ']' or ','
JSONArrayValues(s, start, values) ==
    Only({ IF ~item.ok THEN DecodeError
           ELSE Only({ IF CharAt(s, end) = "]"
                       THEN Decoded(JArr(Append(values, item.val)), end + 1)
                       ELSE IF CharAt(s, end) # "," THEN DecodeError
                       ELSE JSONArrayValues(s, next, Append(values, item.val))
                     : end \in {SkipWhitespace(s, item.end)},
                       next \in {SkipWhitespace(s, SkipWhitespace(s, item.end) + 1)} })
         : item \in {scan_once(s, start)} })

\* JSONObject after the opening brace
JSONObject(s, start) ==
    Only({ IF CharAt(s, end) = "}" THEN Decoded(JObj(<< >>), end + 1)
           ELSE IF CharAt(s, end) # "\"" THEN DecodeError
           ELSE JSONObjectPairs(s, end + 1, << >>)
         : end \in {SkipWhitespace(s, start)} })

\* after a pair: '}' ends the object, ',' and a quote start the next key
AfterPair(s, end, pairs) ==
    IF CharAt(s, end) = "}" THEN Decoded(JObj(pairs), end + 1)
    ELSE IF CharAt(s, end) # "," THEN DecodeError
    ELSE Only({ IF CharAt(s, quote) # "\"" THEN DecodeError
                ELSE JSONObjectPairs(s, quote + 1, pairs)
              : quote \in {SkipWhitespace(s, end + 1)} })

\* after a key: ':' and the value
AfterKey(s, key, colon, pairs) ==
    IF CharAt(s, colon) # ":" THEN DecodeError
    ELSE Only({ IF ~value.ok THEN DecodeError
                ELSE Only({ AfterPair(s, end, grown)
                          : end \in {SkipWhitespace(s, value.end)},
                            grown \in {PutPair(pairs, key, value.val)} })
              : value \in {scan_once(s, SkipWhitespace(s, colon + 1))} })

\* JSONObject's loop: key, ':', value, then '}' or ',' and the next key
JSONObjectPairs(s, start, pairs) ==
    Only({ IF ~key.ok THEN DecodeError
           ELSE Only({ AfterKey(s, key.val, colon, pairs)
                     : colon \in {SkipWhitespace(s, key.end)} })
         : key \in {scanstring(s, start, Empty)} })

\* parse_string: the string whose opening quote is before index start
JSONString(s, start) ==
    Only({ IF str.ok THEN Decoded(JStr(str.val), str.end) ELSE DecodeError
         : str \in {scanstring(s, start, Empty)} })

\* json.scanner.py_make_scanner._scan_once
scan_once(s, idx) ==
    Only({ IF nextchar = "" THEN DecodeError
           ELSE IF nextchar = "\"" THEN JSONString(s, idx + 1)
           ELSE IF nextchar = "{" THEN JSONObject(s, idx + 1)
           ELSE IF nextchar = "[" THEN JSONArray(s, idx + 1)
           ELSE IF nextchar = "n" /\ Slice(s, idx, 4) = S_null
           THEN Decoded(JNull, idx + 4)
           ELSE IF nextchar = "t" /\ Slice(s, idx, 4) = S_true
           THEN Decoded(JTrue, idx + 4)
           ELSE IF nextchar = "f" /\ Slice(s, idx, 5) = S_false
           THEN Decoded(JFalse, idx + 5)
           ELSE IF IsDigit(nextchar) THEN match_number(s, idx)
           ELSE DecodeError
         : nextchar \in {CharAt(s, idx)} })

\* _decoder.raw_decode(s): (obj, pos), or JSONDecodeError
raw_decode(s) == scan_once(s, 0)

(***************************************************************************)
(* Chunked response bodies.                                                *)
(***************************************************************************)
S_results == <<"r","e","s","u","l","t","s">>
S_error == <<"e","r","r","o","r">>
S_quote == <<"\"">>
S_a_b_text == <<"a"," ","b">>

\* the text of one JSON value; sp is the blank written after ',' and ':'
RECURSIVE Dumps(_, _), DumpValues(_, _), DumpPairs(_, _, _)
Dumps(v, sp) ==
    IF v[1] = "num" THEN DecStr(v[2])
    ELSE IF v[1] = "str" THEN S_quote \o v[2] \o S_quote
    ELSE IF v[1] = "arr" THEN <<"[">> \o DumpValues(v[2], sp) \o <<"]">>
    ELSE IF v[1] = "obj" THEN <<"{">> \o DumpPairs(v[2], DOMAIN v[2], sp) \o <<"}">>
    ELSE IF v[1] = "true" THEN S_true
    ELSE IF v[1] = "false" THEN S_false
    ELSE S_null

DumpValues(values, sp) ==
    IF values = << >> THEN Empty
    ELSE IF Len(values) = 1 THEN Dumps(values[1], sp)
    ELSE Dumps(values[1], sp) \o <<",">> \o sp \o DumpValues(Tail(values), sp)

DumpPairs(dict, keys, sp) ==
    IF keys = {} THEN Empty
    ELSE LET key == CHOOSE k \in keys : TRUE
             pair == S_quote \o key \o S_quote \o <<":">> \o sp \o Dumps(dict[key], sp)
         IN  IF keys = {key} THEN pair
             ELSE pair \o <<",">> \o sp \o DumpPairs(dict, keys \ {key}, sp)

\* the texts of values, sep between each two
RECURSIVE JoinValues(_, _, _)
JoinValues(values, sp, sep) ==
    IF Len(values) = 1 THEN Dumps(values[1], sp)
    ELSE Dumps(values[1], sp) \o sep \o JoinValues(Tail(values), sp, sep)

\* the character e-acute (U+00E9) and the two bytes of its UTF-8 encoding
E_acute == "U+00E9"
HighBytes == {"0xC3", "0xA9"}

\* text.encode('utf-8'): an ASCII character is one byte, itself
RECURSIVE Utf8Encode(_)
Utf8Encode(text) ==
    IF text = << >> THEN << >>
    ELSE (IF Head(text) = E_acute THEN <<"0xC3", "0xA9">> ELSE <<Head(text)>>)
         \o Utf8Encode(Tail(text))

\* content.decode(): Python 2's default codec is ascii, which maps each byte
\* below 0x80 to its character and raises UnicodeDecodeError on any other
decode(content) ==
    IF \E i \in 1..Len(content) : content[i] \in HighBytes
    THEN [ok |-> FALSE, text |-> Empty]
    ELSE [ok |-> TRUE, text |-> content]

\* {"results": [{"error": "foo"}]}
ErrorChunkValue ==
    JObj(S_results :> JArr(<<JObj(S_error :> JStr(S_foo))>>))

JsonValues ==
    { JNum(0), JNum(10), JStr(S_a_b_text), JNull,
      JArr(<<JNum(1), JStr(Empty)>>), JArr(<<JTrue, JArr(<< >>)>>),
      ErrorChunkValue, JStr(<<"c", E_acute>>) }

ValueSeparators == { <<"\n">>, <<" ">>, <<"\r", "\n">> }
Trailers == { Empty, <<"\n">> }
Spacings == { Empty, <<" ">> }

\* bodies of 1..maxValues complete values
CompleteBodies(maxValues) ==
    { [content |-> Utf8Encode(JoinValues(values, sp, sep) \o trailer),
       values |-> values, complete |-> TRUE] :
        values \in UNION {[1..k -> JsonValues] : k \in 1..maxValues},
        sp \in Spacings, sep \in ValueSeparators, trailer \in Trailers }

\* bodies that are not a sequence of complete values
BrokenBodies ==
    { [content |-> content, values |-> << >>, complete |-> FALSE] :
        content \in { Empty, <<" ">>, <<"{">>, <<"[", "1", ",">>,
                      <<"1", "\n", "x">>, <<"\"", "a">> } }

Bodies(maxValues) == CompleteBodies(maxValues) \cup BrokenBodies

(***************************************************************************)
(* query_indb(..., chunked=True) on a 200 response: list(loads(content)),  *)
(* one action per turn of the generator's while loop.                      *)
(***************************************************************************)
InLoads == call.fn = "query_indb.loads"

\* response.status_code == 200 and chunked: loads(response.content.decode())
QueryIndbChunked ==
    /\ Idle
    /\ \E body \in Bodies(MaxValues) :
       \E decoded \in {decode(body.content)} :
        /\ call' = [fn |-> "query_indb.loads", status_code |-> 200,
                    content |-> body.content, values |-> body.values,
                    complete |-> body.complete,
                    s |-> decoded.text, objs |-> << >>,
                    pc |-> IF decoded.ok THEN "loop" ELSE "done"]
        /\ result' = IF decoded.ok THEN Return(Empty)
                     ELSE Raise("UnicodeDecodeError", Empty)
    /\ UNCHANGED <<df, labels>>

\* while s: s = s.strip(); obj, pos = raw_decode(s); yield obj; s = s[pos:]
LoadsYield ==
    /\ InLoads /\ call.pc = "loop" /\ call.s # Empty
    /\ \E s \in {strip(call.s)} :
       \E decoded \in {raw_decode(s)} :
           /\ decoded.ok /\ decoded.end # 0
           /\ call' = [call EXCEPT !.s = SliceFrom(s, decoded.end),
                                   !.objs = Append(@, decoded.val)]
    /\ UNCHANGED <<result, df, labels>>

\* raw_decode raises JSONDecodeError (a ValueError), or pos is 0
LoadsRaise ==
    /\ InLoads /\ call.pc = "loop" /\ call.s # Empty
    /\ \E s \in {strip(call.s)} :
       \E decoded \in {raw_decode(s)} :
           /\ ~decoded.ok \/ decoded.end = 0
           /\ call' = [call EXCEPT !.s = s, !.pc = "done"]
    /\ result' = Raise("ValueError", Empty)
    /\ UNCHANGED <<df, labels>>

\* s is empty: the generator is exhausted and list(...) is returned
LoadsReturn ==
    /\ InLoads /\ call.pc = "loop" /\ call.s = Empty
    /\ call' = [call EXCEPT !.pc = "done"]
    /\ result' = Return(call.objs)
    /\ UNCHANGED <<df, labels>>

\* the caller takes the list, or the exception
TakeList ==
    /\ InLoads /\ call.pc = "done"
    /\ call' = [fn |-> "none"]
    /\ result' = Return(Empty)
    /\ UNCHANGED <<df, labels>>

LoadsStep == LoadsYield \/ LoadsRaise \/ LoadsReturn

NextLoads == QueryIndbChunked \/ LoadsYield \/ LoadsRaise \/ LoadsReturn \/ TakeList

\* list(...) drives the generator without interruption until it ends
SpecLoads == Init /\ [][NextLoads]_vars /\ WF_vars(LoadsStep)

(***************************************************************************)
(* Claim about the chunked response splitting.                             *)
(***************************************************************************)
\* a call whose body is one or more complete values, blank-separated
OnCompleteBody == InLoads /\ call.complete

\* C11: on a body of k >= 1 complete JSON values separated by whitespace,
\* with or without a trailing newline, the splitting ends, raises nothing,
\* and the list returned is exactly those k values in their order.
C11_LoadsYieldsValues ==
    /\ [](OnCompleteBody /\ call.pc = "done" => result = Return(call.values))
    /\ (OnCompleteBody /\ call.pc = "loop") ~> (OnCompleteBody /\ call.pc = "done")

\* the generator itself: once the body is decoded to text, it ends and the
\* list returned is the values of the body in their order
LoadsYieldsValuesOfDecodedText ==
    /\ [](OnCompleteBody /\ call.pc = "done" /\ decode(call.content).ok
            => result = Return(call.values))
    /\ (OnCompleteBody /\ call.pc = "loop") ~> (OnCompleteBody /\ call.pc = "done")

\* an ASCII body of two values or more with a trailing newline, split
SplitWitness ==
    /\ OnCompleteBody /\ call.pc = "done"
    /\ Len(call.values) >= 2
    /\ call.content[Len(call.content)] = "\n"
    /\ result = Return(call.values)

====
